---- MODULE Spec2Model ----
(***************************************************************************)
(* Model of backend/app.py, the Flask backend of the diet recommendation   *)
(* service: the request validator (validate_request), the catalog loading  *)
(* and cleaning (load_models_and_data), the cluster policy tables, the     *)
(* ranking (get_cluster_recommendations) and the /api/recommend handler.   *)
(*                                                                         *)
(* Representation.                                                         *)
(*   - Python None is the empty tuple, a present object x is <<x>>.        *)
(*   - Text whose characters matter (cells of the csv file, JSON values    *)
(*     handed to float()) is a tuple of one-character strings.             *)
(*   - A JSON value is [t |-> type, v |-> text]; a JSON body is            *)
(*     [kind |-> ..., fields |-> mapping from keys to JSON values].        *)
(*   - Dictionary keys are TLA+ strings; sorted() over them follows        *)
(*     KeyOrder, the code point order of the keys the model uses.          *)
(***************************************************************************)
EXTENDS Integers, Sequences, FiniteSets, TLC

VARIABLES
    disk,           \* the files load_models_and_data reads
    phase,          \* "boot", "serving" or "exited": the process' life
    model,          \* global model (app.py:98)
    preprocessor,   \* global preprocessor (app.py:99)
    features_list,  \* global features_list (app.py:100)
    food_df,        \* global food_df (app.py:101)
    pc,             \* position of the request being handled
    data,           \* the JSON body of the request / argument of validate_request
    ret,            \* what validate_request returned
    user_cluster,   \* the cluster id handed to get_cluster_recommendations
    result,         \* what get_cluster_recommendations returned
    response,       \* the HTTP response of recommend()
    calls           \* which collaborators ran while handling the request

vars == <<disk, phase, model, preprocessor, features_list, food_df, pc, data,
          ret, user_cluster, result, response, calls>>

None == <<>>
Some(x) == <<x>>

Range(s) == {s[i] : i \in DOMAIN s}

Min(a, b) == IF a <= b THEN a ELSE b

(***************************************************************************)
(* Module constants of app.py                                              *)
(***************************************************************************)
REQUIRED_KEYS ==
    << "Age", "BMI", "Chronic_Disease", "Blood_Pressure_Systolic",
       "Blood_Sugar_Level", "Daily_Steps", "Exercise_Frequency",
       "Alcohol_Consumption", "Smoking_Habit", "Dietary_Habits" >>

S_None == <<"N","o","n","e">>
S_Diabetes == <<"D","i","a","b","e","t","e","s">>
S_HeartDisease == <<"H","e","a","r","t"," ","D","i","s","e","a","s","e">>
S_Hypertension == <<"H","y","p","e","r","t","e","n","s","i","o","n">>
S_Obesity == <<"O","b","e","s","i","t","y">>
S_No == <<"N","o">>
S_Yes == <<"Y","e","s">>
S_Regular == <<"R","e","g","u","l","a","r">>
S_Vegetarian == <<"V","e","g","e","t","a","r","i","a","n">>
S_Vegan == <<"V","e","g","a","n">>
S_Keto == <<"K","e","t","o">>

\* The dictionary ALLOWED_VALUES; CategoricalKeys is its iteration
\* (insertion) order.
CategoricalKeys ==
    << "Chronic_Disease", "Alcohol_Consumption", "Smoking_Habit", "Dietary_Habits" >>

ALLOWED_VALUES ==
    [ Chronic_Disease |-> << S_None, S_Diabetes, S_HeartDisease, S_Hypertension, S_Obesity >>,
      Alcohol_Consumption |-> << S_No, S_Yes >>,
      Smoking_Habit |-> << S_No, S_Yes >>,
      Dietary_Habits |-> << S_Regular, S_Vegetarian, S_Vegan, S_Keto >> ]

numeric_fields ==
    << "Age", "BMI", "Blood_Pressure_Systolic", "Blood_Sugar_Level",
       "Daily_Steps", "Exercise_Frequency" >>

(***************************************************************************)
(* Python built-ins used by validate_request                               *)
(***************************************************************************)
Digits == {"0", "1", "2", "3", "4", "5", "6", "7", "8", "9"}

\* Keys outside REQUIRED_KEYS that requests of the model carry.
ExtraKeys == {"Gender", "age"}

\* Code point order of the keys of the model (upper case letters sort
\* before "_" and lower case ones): the order sorted() puts them in.
KeyOrder ==
    << "Age", "Alcohol_Consumption", "BMI", "Blood_Pressure_Systolic",
       "Blood_Sugar_Level", "Chronic_Disease", "Daily_Steps", "Dietary_Habits",
       "Exercise_Frequency", "Gender", "Smoking_Habit", "age" >>

\* The keys listed without sorted(): in the order of their declaration.
KeysUnsorted(S) == SelectSeq(REQUIRED_KEYS \o <<"Gender", "age">>, LAMBDA k : k \in S)

\* sorted(keys) for a set of keys
SortedKeys(S) == SelectSeq(KeyOrder, LAMBDA k : k \in S)

\* Whether str s is a literal float() parses. Python accepts an optional
\* sign, then digits with at most one "." and at least one digit (plus
\* surrounding blanks, exponents, "inf" and "nan", which need characters
\* the strings of the model do not have).
IsFloatLiteral(s) ==
    LET b == IF Len(s) > 0 /\ s[1] \in {"-", "+"} THEN Tail(s) ELSE s
        dots == {i \in DOMAIN b : b[i] = "."}
        digs == {i \in DOMAIN b : b[i] \in Digits}
    IN  /\ \A i \in DOMAIN b : b[i] \in Digits \cup {"."}
        /\ Cardinality(dots) <= 1
        /\ digs # {}

\* float() taken to convert numbers only, as an isinstance check would.
FloatRaisesOnText(value) == value.t # "number"

\* Whether float(value) raises ValueError or TypeError: numbers and
\* booleans convert, a str converts when it is a float literal, None and
\* lists raise TypeError.
FloatRaises(value) ==
    CASE value.t = "number" -> FALSE
      [] value.t = "bool" -> FALSE
      [] value.t = "string" -> ~IsFloatLiteral(value.v)
      [] OTHER -> TRUE

\* value in allowed_list: == between a str and a non-str is False
InList(value, allowed_list) ==
    /\ value.t = "string"
    /\ \E i \in DOMAIN allowed_list : allowed_list[i] = value.v

\* not data: None, {} and [] are falsy
Falsy(d) ==
    \/ d.kind = "null"
    \/ d.kind \in {"object", "array"} /\ d.size = 0       \* len(data) = 0

(***************************************************************************)
(* validate_request (app.py:363-413)                                       *)
(***************************************************************************)
Returned(is_valid, error_response, status_code) ==
    [ raised |-> "", is_valid |-> is_valid, error_response |-> error_response,
      status_code |-> status_code ]

Raised(exc) ==
    [ raised |-> exc, is_valid |-> FALSE, error_response |-> None, status_code |-> 0 ]

\* The error payload: the message with the values formatted into it, and
\* the key of its "allowed" entry.
ErrorPayload(message, args, allowed) ==
    Some([ error |-> message, args |-> args, allowed |-> allowed ])

missing_keys(d) == Range(REQUIRED_KEYS) \ DOMAIN d.fields

\* The difference taken the wrong way round.
extra_keys_swapped(d) == Range(REQUIRED_KEYS) \ DOMAIN d.fields

extra_keys(d) == DOMAIN d.fields \ Range(REQUIRED_KEYS)

\* The first key of the loop over ALLOWED_VALUES.items() whose value is
\* not in its allowed list; 0 when the loop ends without returning.
FirstInvalidCategorical(d) ==
    LET bad == { i \in DOMAIN CategoricalKeys :
                    /\ CategoricalKeys[i] \in DOMAIN d.fields
                    /\ ~InList(d.fields[CategoricalKeys[i]],
                               ALLOWED_VALUES[CategoricalKeys[i]]) }
    IN  IF bad = {} THEN 0 ELSE CHOOSE i \in bad : \A j \in bad : i <= j

\* The first field of the loop over numeric_fields float() raises on.
FirstNonNumeric(d) ==
    LET bad == { i \in DOMAIN numeric_fields :
                    /\ numeric_fields[i] \in DOMAIN d.fields
                    /\ FloatRaises(d.fields[numeric_fields[i]]) }
    IN  IF bad = {} THEN 0 ELSE CHOOSE i \in bad : \A j \in bad : i <= j

validate_request(d) ==
    IF Falsy(d)
    THEN Returned(FALSE, ErrorPayload("No data provided", <<>>, ""), 400)
    ELSE IF d.kind # "object"
    THEN Raised("AttributeError")       \* data.keys() of a list
    ELSE IF missing_keys(d) # {}
    THEN Returned(FALSE, ErrorPayload("Missing required keys",
                                      SortedKeys(missing_keys(d)),
                                      "required_keys"), 400)
    ELSE IF extra_keys(d) # {}
    THEN Returned(FALSE, ErrorPayload("Unexpected keys found",
                                      SortedKeys(extra_keys(d)),
                                      "required_keys"), 400)
    ELSE IF FirstInvalidCategorical(d) # 0
    THEN Returned(FALSE, ErrorPayload("Invalid value for",
                                      << CategoricalKeys[FirstInvalidCategorical(d)] >>,
                                      CategoricalKeys[FirstInvalidCategorical(d)]), 400)
    ELSE IF FirstNonNumeric(d) # 0
    THEN Returned(FALSE, ErrorPayload("must be a number",
                                      << numeric_fields[FirstNonNumeric(d)] >>,
                                      "required_keys"), 400)
    ELSE Returned(TRUE, None, 200)

(***************************************************************************)
(* pandas: cells, frames, read_csv, to_numeric                             *)
(*                                                                         *)
(* A cell is text, a number or NaN.  A frame is its columns, their dtypes  *)
(* ("object" or "number") and its rows, each row with its index label and  *)
(* its cells.  Numbers are integers: the model's files hold no fractions.  *)
(***************************************************************************)
Str(s) == [t |-> "str", s |-> s, n |-> 0]
Num(n) == [t |-> "num", s |-> <<>>, n |-> n]
NaN == [t |-> "nan", s |-> <<>>, n |-> 0]

DigitValue(c) ==
    CASE c = "0" -> 0 [] c = "1" -> 1 [] c = "2" -> 2 [] c = "3" -> 3
      [] c = "4" -> 4 [] c = "5" -> 5 [] c = "6" -> 6 [] c = "7" -> 7
      [] c = "8" -> 8 [] c = "9" -> 9

\* Whether the parser of read_csv and of to_numeric reads text s as a
\* number: an optional sign and one or more digits (fractions, exponents,
\* blanks, "inf" and "nan" need characters the model's files do not have).
IsNumericLiteral(s) ==
    LET b == IF Len(s) > 0 /\ s[1] \in {"-", "+"} THEN Tail(s) ELSE s
    IN  /\ Len(b) > 0
        /\ \A i \in DOMAIN b : b[i] \in Digits

RECURSIVE DigitsValue(_)
DigitsValue(b) ==
    IF b = <<>> THEN 0
    ELSE 10 * DigitsValue(SubSeq(b, 1, Len(b) - 1)) + DigitValue(b[Len(b)])

\* The number a numeric literal stands for.
LiteralValue(s) ==
    IF s[1] = "-" THEN 0 - DigitsValue(Tail(s))
    ELSE IF s[1] = "+" THEN DigitsValue(Tail(s))
    ELSE DigitsValue(s)

\* pd.to_numeric(..., errors='coerce') on one cell
to_numeric(cell) ==
    CASE cell.t = "num" -> cell
      [] cell.t = "nan" -> NaN
      [] cell.t = "str" ->
            IF IsNumericLiteral(cell.s) THEN Num(LiteralValue(cell.s)) ELSE NaN

\* .astype(str) on one cell of an object column of read_csv, which holds
\* text and NaN only
astype_str(cell) ==
    CASE cell.t = "str" -> cell.s
      [] cell.t = "nan" -> <<"n","a","n">>

\* .str.replace(old, new, regex=False): every occurrence of the character
\* old becomes the text new
RECURSIVE str_replace(_, _, _)
str_replace(s, old, new) ==
    IF s = <<>> THEN <<>>
    ELSE (IF Head(s) = old THEN new ELSE <<Head(s)>>) \o str_replace(Tail(s), old, new)

\* .fillna(0) on one cell
fillna0(cell) == IF cell.t = "nan" THEN Num(0) ELSE cell

\* pd.read_csv of a file: [columns, rows], each row a mapping from the
\* columns to the text of its cells.  A column whose cells are all numeric
\* literals or empty is parsed to numbers (empty is NaN); any other column
\* keeps its text, with NaN for the empty cells.
read_csv(file) ==
    LET numeric(c) ==
            /\ file.rows # <<>>
            /\ \A i \in DOMAIN file.rows :
                  file.rows[i][c] = <<>> \/ IsNumericLiteral(file.rows[i][c])
        cell(c, text) ==
            IF text = <<>> THEN NaN
            ELSE IF numeric(c) THEN Num(LiteralValue(text))
            ELSE Str(text)
    IN  [ columns |-> file.columns,
          dtypes |-> [c \in Range(file.columns) |->
                         IF numeric(c) THEN "number" ELSE "object"],
          rows |-> [i \in DOMAIN file.rows |->
                      [ index |-> i - 1,
                        cells |-> [c \in Range(file.columns) |->
                                      cell(c, file.rows[i][c])] ]] ]

(***************************************************************************)
(* load_models_and_data (app.py:103-151)                                   *)
(***************************************************************************)
load_numeric_cols ==
    << "Grams", "Calories", "Protein", "Fat", "Sat.Fat", "Fiber", "Carbs" >>

\* The features the pipeline was trained on: the feature_list of
\* preprocessor_and_features.joblib, and the list of app.py:118-122.
TrainedFeatures ==
    << "Age", "BMI", "Chronic_Disease", "Blood_Pressure_Systolic",
       "Blood_Sugar_Level", "Daily_Steps", "Exercise_Frequency",
       "Alcohol_Consumption", "Smoking_Habit", "Dietary_Habits" >>

\* app.py:136-138 on one cell of an object column
CleanCell(cell) ==
    to_numeric(Str(str_replace(str_replace(astype_str(cell), "t", <<"0">>), ",", <<>>)))

\* app.py:134-138: the loop over numeric_cols
CleanNumericCols(df) ==
    LET cleaned(c) == c \in Range(load_numeric_cols) /\ df.dtypes[c] = "object"
    IN  [ columns |-> df.columns,
          dtypes |-> [c \in Range(df.columns) |->
                         IF cleaned(c) THEN "number" ELSE df.dtypes[c]],
          rows |-> [i \in DOMAIN df.rows |->
                      [ index |-> df.rows[i].index,
                        cells |-> [c \in Range(df.columns) |->
                                      IF cleaned(c) THEN CleanCell(df.rows[i].cells[c])
                                      ELSE df.rows[i].cells[c]] ]] ]

\* The load without the fillna(0) of app.py:141.
FillNumericColsSkipped(df) == df

\* app.py:141: food_df[numeric_cols] = food_df[numeric_cols].fillna(0)
FillNumericCols(df) ==
    [ df EXCEPT !.rows =
        [i \in DOMAIN df.rows |->
            [ index |-> df.rows[i].index,
              cells |-> [c \in Range(df.columns) |->
                            IF c \in Range(load_numeric_cols)
                            THEN fillna0(df.rows[i].cells[c])
                            ELSE df.rows[i].cells[c]] ]] ]

\* food_df[numeric_cols] raises KeyError when a column is not in the frame
HasNumericCols(df) == Range(load_numeric_cols) \subseteq Range(df.columns)

\* The frame load_models_and_data leaves in food_df when it returns True.
LoadedFrame(file) == FillNumericCols(CleanNumericCols(read_csv(file)))

\* load_models_and_data() on the files of d: what it returns and what it
\* leaves in the four globals (an exception is caught after the
\* assignments made before it).
load_models_and_data(d) ==
    LET g(ok, m, p, f, df) ==
            [ returned |-> ok, model |-> m, preprocessor |-> p,
              features_list |-> f, food_df |-> df ]
        pre == Some("preprocessor")
        feat == Some(TrainedFeatures)
        km == Some("kmeans_model")
        raw == read_csv(d.nutrients_csvfile[1])
    IN  IF ~d.preprocessor_and_features /\ ~d.preprocessor
        THEN g(FALSE, None, None, None, None)
        ELSE IF ~d.kmeans_model
        THEN g(FALSE, None, pre, feat, None)
        ELSE IF d.nutrients_csvfile = None
        THEN g(FALSE, km, pre, feat, None)
        ELSE IF ~HasNumericCols(raw)
        THEN g(FALSE, km, pre, feat, Some(CleanNumericCols(raw)))
        ELSE g(TRUE, km, pre, feat, Some(LoadedFrame(d.nutrients_csvfile[1])))

\* app.py:485-491: python app.py loads, and serves when the load succeeded
RunMain ==
    /\ phase = "boot"
    /\ LET g == load_models_and_data(disk)
       IN  /\ model' = g.model
           /\ preprocessor' = g.preprocessor
           /\ features_list' = g.features_list
           /\ food_df' = g.food_df
           /\ phase' = IF g.returned THEN "serving" ELSE "exited"
    /\ UNCHANGED <<disk, pc, data, ret, user_cluster, result, response, calls>>

(***************************************************************************)
(* The cluster policy tables (app.py:77-95)                                *)
(***************************************************************************)
CLUSTER_PROFILE ==
    [ k \in 0..5 |->
        CASE k = 0 -> "Prediabetic, Active Profile"
          [] k = 1 -> "Older, Active Diabetic Profile"
          [] k = 2 -> "Active Diabetic with High Blood Pressure"
          [] k = 3 -> "Low-Activity Diabetic with Very High Blood Sugar"
          [] k = 4 -> "Active Walker with High Blood Pressure"
          [] k = 5 -> "High BMI (Obese) with Diabetes" ]

CLUSTER_RECOMMENDATION_TYPE ==
    [ k \in 0..5 |->
        CASE k = 0 -> "Low-Carb Foods"
          [] k = 1 -> "Low-Carb Foods"
          [] k = 2 -> "Low-Fat Foods"
          [] k = 3 -> "Low-Carb Foods"
          [] k = 4 -> "Low-Fat Foods"
          [] k = 5 -> "Balanced (Low-Calorie) Foods" ]

DigitChar(d) ==
    CASE d = 0 -> "0" [] d = 1 -> "1" [] d = 2 -> "2" [] d = 3 -> "3"
      [] d = 4 -> "4" [] d = 5 -> "5" [] d = 6 -> "6" [] d = 7 -> "7"
      [] d = 8 -> "8" [] d = 9 -> "9"

\* str(n) of an integer, as the f-string formats it
RECURSIVE IntStr(_)
IntStr(n) ==
    IF n < 0 THEN "-" \o IntStr(0 - n)
    ELSE IF n < 10 THEN DigitChar(n)
    ELSE IntStr(n \div 10) \o DigitChar(n % 10)

\* app.py:168: CLUSTER_PROFILE.get(user_cluster, f"Cluster {user_cluster}")
profile_name_of(c) ==
    IF c \in DOMAIN CLUSTER_PROFILE THEN CLUSTER_PROFILE[c]
    ELSE "Cluster " \o IntStr(c)

\* The type of cluster 0 taken as the default.
recommendation_type_low_carb(c) ==
    IF c \in DOMAIN CLUSTER_RECOMMENDATION_TYPE THEN CLUSTER_RECOMMENDATION_TYPE[c]
    ELSE CLUSTER_RECOMMENDATION_TYPE[0]

\* app.py:171-174
recommendation_type_of(c) ==
    IF c \in DOMAIN CLUSTER_RECOMMENDATION_TYPE THEN CLUSTER_RECOMMENDATION_TYPE[c]
    ELSE "Balanced (Low-Calorie) Foods"

(***************************************************************************)
(* get_cluster_recommendations (app.py:153-238)                            *)
(*                                                                         *)
(* The function works on the pair of the global food_df and its local      *)
(* working_df.  aliased says whether the two names are bound to the same   *)
(* frame object: an assignment to a column of working_df then changes      *)
(* food_df too.                                                            *)
(***************************************************************************)
rank_numeric_cols == << "Protein", "Fat", "Calories" >>

required_fields == << "Food", "Category", "Protein", "Fat", "Carbs", "Calories" >>

rank_numeric_fields == << "Protein", "Fat", "Carbs", "Calories" >>

\* df[col] = vals, one cell for each row: the column is replaced, or
\* appended when the frame has none of that name.
SetColumn(df, col, dtype, vals) ==
    LET cols == IF col \in Range(df.columns) THEN df.columns
                ELSE Append(df.columns, col)
    IN  [ columns |-> cols,
          dtypes |-> [c \in Range(cols) |-> IF c = col THEN dtype ELSE df.dtypes[c]],
          rows |-> [i \in DOMAIN df.rows |->
                      [ index |-> df.rows[i].index,
                        cells |-> [c \in Range(cols) |->
                                      IF c = col THEN vals[i]
                                      ELSE df.rows[i].cells[c]] ]] ]

\* working_df[col] = vals: an assignment through the name working_df
AssignColumn(e, col, dtype, vals) ==
    LET w == SetColumn(e.working_df, col, dtype, vals)
    IN  [ e EXCEPT !.working_df = w,
                   !.food_df = IF e.aliased THEN w ELSE @ ]

\* working_df = <a new frame>
Rebind(e, df) == [e EXCEPT !.working_df = df, !.aliased = FALSE]

\* working_df = food_df, without .copy(): one frame under two names.
df_alias(e) == [e EXCEPT !.working_df = e.food_df, !.aliased = TRUE]

\* working_df = food_df.copy(): a new frame with the cells of food_df
df_copy(e) == [e EXCEPT !.working_df = e.food_df, !.aliased = FALSE]

\* working_df[working_df['Cluster'] == user_cluster]: NaN equals nothing
FilterCluster(df, c) ==
    [ df EXCEPT !.rows =
        SelectSeq(df.rows, LAMBDA r : r.cells["Cluster"].t = "num"
                                       /\ r.cells["Cluster"].n = c) ]

\* The filter without the fall back of app.py:187-189.
SelectCandidatesNoFallback(e, c) ==
    IF "Cluster" \in Range(e.working_df.columns)
    THEN LET coerced == AssignColumn(e, "Cluster", "number",
                                     [i \in DOMAIN e.working_df.rows |->
                                         to_numeric(e.working_df.rows[i].cells["Cluster"])])
         IN  Rebind(coerced, FilterCluster(coerced.working_df, c))
    ELSE e

\* app.py:179-189
SelectCandidates(e, c) ==
    IF "Cluster" \in Range(e.working_df.columns)
    THEN LET coerced == AssignColumn(e, "Cluster", "number",
                                     [i \in DOMAIN e.working_df.rows |->
                                         to_numeric(e.working_df.rows[i].cells["Cluster"])])
             filtered == Rebind(coerced, FilterCluster(coerced.working_df, c))
         IN  IF Len(filtered.working_df.rows) = 0 THEN df_copy(filtered)
             ELSE filtered
    ELSE e

\* app.py:193-198 for one column, and 201 for it
EnsureNumeric(e, col) ==
    AssignColumn(e, col, "number",
                 [i \in DOMAIN e.working_df.rows |->
                     IF col \in Range(e.working_df.columns)
                     THEN fillna0(to_numeric(e.working_df.rows[i].cells[col]))
                     ELSE Num(0)])

\* app.py:205-209.  The score is kept times 100, which is an integer and
\* orders the rows as Protein*2 - Fat*1.5 - Calories/50 does.
score_x100(cells) ==
    200 * cells["Protein"].n - 150 * cells["Fat"].n - 2 * cells["Calories"].n

\* app.py:212, sort_values(by='score', ascending=False): the sequences of
\* the rows at the positions S in descending score.  The call names no
\* kind, so numpy's quicksort orders the rows, which is not a stable sort:
\* rows of equal score come out in any order.
RECURSIVE DescendingOrders(_, _)
DescendingOrders(rows, S) ==
    IF S = {} THEN { <<>> }
    ELSE LET top == { i \in S : \A j \in S :
                        rows[j].cells["score"].n <= rows[i].cells["score"].n }
         IN  UNION { { <<rows[i]>> \o rest : rest \in DescendingOrders(rows, S \ {i}) } :
                     i \in top }

sort_values(df) == DescendingOrders(df.rows, DOMAIN df.rows)

\* .head(n) one row short.
head_short(rows, n) == SubSeq(rows, 1, Min(n - 1, Len(rows)))

\* .head(n)
head(rows, n) == SubSeq(rows, 1, Min(n, Len(rows)))

\* app.py:215-236 on one row of the sorted frame: the six required fields,
\* a missing one 0 or '', the numeric ones coerced and filled
Project(row) ==
    [ index |-> row.index,
      cells |-> [f \in Range(required_fields) |->
                    IF f \in Range(rank_numeric_fields)
                    THEN (IF f \in DOMAIN row.cells
                          THEN fillna0(to_numeric(row.cells[f])) ELSE Num(0))
                    ELSE (IF f \in DOMAIN row.cells THEN row.cells[f] ELSE Str(<<>>))] ]

\* get_cluster_recommendations(user_cluster) with df in the global food_df:
\* every pair of what it may return and what it leaves in food_df.
get_cluster_recommendations(df, c) ==
    LET e1 == df_copy([food_df |-> df, working_df |-> df, aliased |-> TRUE])
        e2 == SelectCandidates(e1, c)
        e3 == EnsureNumeric(EnsureNumeric(EnsureNumeric(e2, "Protein"), "Fat"), "Calories")
        e4 == AssignColumn(e3, "score", "number",
                           [i \in DOMAIN e3.working_df.rows |->
                               Num(score_x100(e3.working_df.rows[i].cells))])
    IN  { [ profile_name |-> profile_name_of(c),
            recommendation_type |-> recommendation_type_of(c),
            recommended_foods |->
                [ columns |-> required_fields,
                  rows |-> [i \in DOMAIN head(sorted, 10) |-> Project(sorted[i])] ],
            food_df |-> e4.food_df ] :
          sorted \in sort_values(e4.working_df) }

GetClusterRecommendations ==
    /\ pc = "rank"
    /\ \E out \in get_cluster_recommendations(food_df[1], user_cluster) :
          /\ result' = Some([ profile_name |-> out.profile_name,
                              recommendation_type |-> out.recommendation_type,
                              recommended_foods |-> out.recommended_foods ])
          /\ food_df' = Some(out.food_df)
    /\ calls' = [calls EXCEPT !.rank = 1]
    /\ pc' = "ranked"
    /\ UNCHANGED <<disk, phase, model, preprocessor, features_list, data, ret,
                   user_cluster, response>>

(***************************************************************************)
(* JSON bodies of the requests                                             *)
(***************************************************************************)
MaxStrLen == 3

\* Characters of the str values the requests carry in a numeric field.
StrAlphabet == {"5", ".", "-", "a"}

Strings(alphabet, n) == UNION { [1..k -> alphabet] : k \in 0..n }

JNum(text) == [t |-> "number", v |-> text]
JStr(text) == [t |-> "string", v |-> text]
JBool == [t |-> "bool", v |-> <<"t","r","u","e">>]
JNull == [t |-> "null", v |-> <<>>]
JArr == [t |-> "array", v |-> <<>>]

JsonNull == [kind |-> "null", fields |-> <<>>, size |-> 0]
JsonArray(n) == [kind |-> "array", fields |-> <<>>, size |-> n]
JsonObject(f) == [kind |-> "object", fields |-> f, size |-> Cardinality(DOMAIN f)]

\* A record every check of validate_request accepts.
BaseFields ==
    [ Age |-> JNum(<<"4","5">>),
      BMI |-> JNum(<<"2","7",".","5">>),
      Chronic_Disease |-> JStr(S_Diabetes),
      Blood_Pressure_Systolic |-> JNum(<<"1","3","0">>),
      Blood_Sugar_Level |-> JNum(<<"1","4","0">>),
      Daily_Steps |-> JNum(<<"6","0","0","0">>),
      Exercise_Frequency |-> JNum(<<"3">>),
      Alcohol_Consumption |-> JStr(S_No),
      Smoking_Habit |-> JStr(S_No),
      Dietary_Habits |-> JStr(S_Keto) ]

AgeValues ==
    {JNum(<<"4","5">>), JBool, JNull, JArr}
        \cup {JStr(s) : s \in Strings(StrAlphabet, MaxStrLen)}

ChronicValues ==
    {JStr(s) : s \in Range(ALLOWED_VALUES["Chronic_Disease"])}
        \cup {JStr(<<"n","o","n","e">>), JNum(<<"1">>), JNull}

SmokingValues == {JStr(S_Yes), JStr(<<"y","e","s">>)}

StepsValues == {JNum(<<"6","0","0","0">>), JStr(<<"a">>)}

\* The key sets of the requests: the required keys less some of them,
\* plus some keys that are not required.
KeySets ==
    { (Range(REQUIRED_KEYS) \ D) \cup E :
        D \in (SUBSET {"Age", "Smoking_Habit"}) \cup {Range(REQUIRED_KEYS)},
        E \in SUBSET ExtraKeys }

FieldsOf(K, age, chronic, smoking, steps) ==
    [ k \in K |->
        CASE k = "Age" -> age
          [] k = "Chronic_Disease" -> chronic
          [] k = "Smoking_Habit" -> smoking
          [] k = "Daily_Steps" -> steps
          [] k \in ExtraKeys -> JStr(<<"a">>)
          [] OTHER -> BaseFields[k] ]

JsonBodies ==
    {JsonNull, JsonArray(0), JsonArray(1)}
        \cup { JsonObject(FieldsOf(K, age, chronic, smoking, steps)) :
                 K \in KeySets, age \in AgeValues, chronic \in ChronicValues,
                 smoking \in SmokingValues, steps \in StepsValues }

(***************************************************************************)
(* The validator alone: validate_request applied to every body             *)
(***************************************************************************)
NoDisk ==
    [ preprocessor_and_features |-> FALSE, preprocessor |-> FALSE,
      kmeans_model |-> FALSE, nutrients_csvfile |-> None ]

NoCalls == [predict |-> 0, rank |-> 0]

\* The globals of a process that loaded nothing, and no request in hand.
Unloaded ==
    /\ model = None
    /\ preprocessor = None
    /\ features_list = None
    /\ food_df = None

InitValidate ==
    /\ data \in JsonBodies
    /\ ret = None
    /\ pc = "validate"
    /\ disk = NoDisk
    /\ phase = "boot"
    /\ Unloaded
    /\ user_cluster = 0
    /\ result = None
    /\ response = None
    /\ calls = NoCalls

ValidateRequest ==
    /\ pc = "validate"
    /\ ret' = Some(validate_request(data))
    /\ pc' = "validated"
    /\ UNCHANGED <<disk, phase, model, preprocessor, features_list, food_df,
                   data, user_cluster, result, response, calls>>

SpecValidate == InitValidate /\ [][ValidateRequest]_vars

(***************************************************************************)
(* The loader alone: load_models_and_data on files whose numeric columns   *)
(* hold every text over CellAlphabet                                       *)
(***************************************************************************)
MaxCellLen == 3

CellAlphabet == {"0", "1", "t", ",", "-", "x"}

CsvColumns ==
    << "Food", "Category", "Grams", "Calories", "Protein", "Fat", "Sat.Fat",
       "Fiber", "Carbs" >>

\* A file of one or two rows: column col holds the texts of cells, every
\* other numeric column holds "1".
ProbeFile(col, cells) ==
    [ columns |-> CsvColumns,
      rows |-> [i \in DOMAIN cells |->
                  [c \in Range(CsvColumns) |->
                      CASE c = col -> cells[i]
                        [] c = "Food" -> <<"F">>
                        [] c = "Category" -> <<"C">>
                        [] OTHER -> <<"1">>]] ]

ProbeFiles ==
    { ProbeFile(col, cells) :
        col \in Range(load_numeric_cols),
        cells \in { <<c1>> : c1 \in Strings(CellAlphabet, MaxCellLen) }
                    \cup { <<c1, c2>> : c1 \in Strings(CellAlphabet, MaxCellLen),
                                        c2 \in {<<"1">>, <<"x">>} } }

AllFiles(csv) ==
    [ preprocessor_and_features |-> TRUE, preprocessor |-> TRUE,
      kmeans_model |-> TRUE, nutrients_csvfile |-> Some(csv) ]

InitNormalize ==
    /\ disk \in {AllFiles(f) : f \in ProbeFiles}
    /\ phase = "boot"
    /\ Unloaded
    /\ pc = "idle"
    /\ data = JsonNull
    /\ ret = None
    /\ user_cluster = 0
    /\ result = None
    /\ response = None
    /\ calls = NoCalls

SpecNormalize == InitNormalize /\ [][RunMain]_vars

(***************************************************************************)
(* The ranking alone: get_cluster_recommendations on the frames loaded     *)
(* from slices of a nutrients file, for every cluster id                   *)
(***************************************************************************)
MaxRows == 12

NegClusters == 2

MaxCluster == 11

ClusterIds == (0 - NegClusters)..MaxCluster

CsvRow(food, category, grams, calories, protein, fat, satfat, fiber, carbs, cluster) ==
    [ c \in Range(CsvColumns) \cup {"Cluster"} |->
        CASE c = "Food" -> food
          [] c = "Category" -> category
          [] c = "Grams" -> grams
          [] c = "Calories" -> calories
          [] c = "Protein" -> protein
          [] c = "Fat" -> fat
          [] c = "Sat.Fat" -> satfat
          [] c = "Fiber" -> fiber
          [] c = "Carbs" -> carbs
          [] c = "Cluster" -> cluster ]

\* The rows of a nutrients file with a Cluster column: trace values "t",
\* a thousands separator, an unreadable and an empty cell; rows C and D,
\* and E and L, score the same.
NutrientRows ==
    <<
       CsvRow(<<"A">>, <<"V">>, <<"1","5","0">>, <<"4","5">>, <<"5">>, <<"t">>, <<"t">>, <<"2">>, <<"8">>, <<"2">>),
       CsvRow(<<"B">>, <<"M">>, <<"1","6">>, <<"9","5">>, <<"4">>, <<"8">>, <<"7">>, <<"0">>, <<"1">>, <<"2">>),
       CsvRow(<<"C">>, <<"V">>, <<"1","0","0">>, <<"2","6">>, <<"3">>, <<"t">>, <<"t">>, <<"1">>, <<"3">>, <<"2">>),
       CsvRow(<<"D">>, <<"V">>, <<"1","0","0">>, <<"2","6">>, <<"3">>, <<"t">>, <<"t">>, <<"1">>, <<"4">>, <<"2">>),
       CsvRow(<<"E">>, <<"M">>, <<"8","5">>, <<"2","4","5">>, <<"2","3">>, <<"1","6">>, <<"1","5">>, <<"0">>, <<"0">>, <<"2">>),
       CsvRow(<<"F">>, <<"D">>, <<"9","7","6">>, <<"6","6","0">>, <<"3","2">>, <<"4","0">>, <<"3","6">>, <<"0">>, <<"4","8">>, <<"2">>),
       CsvRow(<<"G">>, <<"F">>, <<"1","1","0">>, <<"1",",","0","0","0">>, <<"0">>, <<"1","1","0">>, <<"4","0">>, <<"0">>, <<"t">>, <<"2">>),
       CsvRow(<<"H">>, <<"V">>, <<"5","0">>, <<"1","0">>, <<"1">>, <<"t">>, <<"t">>, <<"t">>, <<"2">>, <<"2">>),
       CsvRow(<<"I">>, <<"M">>, <<"8","5">>, <<"1","2","0">>, <<"2","0">>, <<"4">>, <<"3">>, <<"0">>, <<"0">>, <<"2">>),
       CsvRow(<<"J">>, <<"D">>, <<"1","0","0">>, <<"1","0","0">>, <<"1","0">>, <<"5">>, <<"3">>, <<"0">>, <<"5">>, <<"2">>),
       CsvRow(<<"K">>, <<"V">>, <<"1","0","0">>, <<"4","0">>, <<"2">>, <<"0">>, <<"0">>, <<"3">>, <<"9">>, <<"2">>),
       CsvRow(<<"L">>, <<"M">>, <<"8","5">>, <<"2","4","5">>, <<"2","3">>, <<"1","6">>, <<"1","5">>, <<"0">>, <<"0">>, <<"0">>),
       CsvRow(<<"M">>, <<"V">>, <<"1","0","0">>, <<"x">>, <<"2">>, <<"t">>, <<"t">>, <<"1">>, <<>>, <<"x">>),
       CsvRow(<<"N">>, <<"V">>, <<"1","0">>, <<"5">>, <<"1">>, <<"t">>, <<"t">>, <<"1">>, <<"1">>, <<>>)
    >>

\* The file with the given columns and n rows of NutrientRows from row
\* first on.
SliceFile(columns, first, n) ==
    [ columns |-> columns,
      rows |-> [i \in 1..n |-> [c \in Range(columns) |-> NutrientRows[first + i - 1][c]]] ]

ColumnLayouts ==
    { Append(CsvColumns, "Cluster"),
      CsvColumns,
      SelectSeq(CsvColumns, LAMBDA c : c # "Category") }

SliceBounds ==
    { b \in (DOMAIN NutrientRows) \X (0..MaxRows) : b[1] + b[2] - 1 <= Len(NutrientRows) }

RankFiles ==
    { SliceFile(columns, b[1], b[2]) : columns \in ColumnLayouts, b \in SliceBounds }

InitRecommend ==
    /\ \E f \in RankFiles :
          /\ disk = AllFiles(f)
          /\ food_df = Some(LoadedFrame(f))
    /\ phase = "serving"
    /\ model = Some("kmeans_model")
    /\ preprocessor = Some("preprocessor")
    /\ features_list = Some(TrainedFeatures)
    /\ user_cluster \in ClusterIds
    /\ pc = "rank"
    /\ data = JsonNull
    /\ ret = None
    /\ result = None
    /\ response = None
    /\ calls = NoCalls

SpecRecommend == InitRecommend /\ [][GetClusterRecommendations]_vars

(***************************************************************************)
(* recommend (app.py:415-483), the handler of POST /api/recommend          *)
(***************************************************************************)
Response(status, error, allowed, profile_name, recommendation_type, foods) ==
    Some([ status |-> status, error |-> error, allowed |-> allowed,
           profile_name |-> profile_name,
           recommendation_type |-> recommendation_type,
           recommended_foods |-> foods ])

ErrorResponse(status, error, allowed) == Response(status, error, allowed, "", "", <<>>)

\* app.py:420
NotLoaded == model = None \/ preprocessor = None \/ food_df = None

\* A request arrives; data holds its body until get_json parses it.
Request(body) ==
    /\ phase = "serving"
    /\ pc \in {"idle", "done"}
    /\ data' = body
    /\ pc' = "entry"
    /\ ret' = None
    /\ user_cluster' = 0
    /\ result' = None
    /\ response' = None
    /\ calls' = NoCalls
    /\ UNCHANGED <<disk, phase, model, preprocessor, features_list, food_df>>

\* app.py:420-423
RecommendNotLoaded ==
    /\ pc = "entry"
    /\ NotLoaded
    /\ response' = ErrorResponse(500, <<"Models not loaded">>, "")
    /\ pc' = "done"
    /\ UNCHANGED <<disk, phase, model, preprocessor, features_list, food_df,
                   data, ret, user_cluster, result, calls>>

\* app.py:426 raising on a body that is no JSON, caught at app.py:480-483
RecommendGetJsonRaises ==
    /\ pc = "entry"
    /\ ~NotLoaded
    /\ data.kind = "malformed"
    /\ response' = ErrorResponse(500, <<"An error occurred during recommendation">>, "")
    /\ pc' = "done"
    /\ UNCHANGED <<disk, phase, model, preprocessor, features_list, food_df,
                   data, ret, user_cluster, result, calls>>

\* app.py:426: data = request.get_json()
RecommendGetJson ==
    /\ pc = "entry"
    /\ ~NotLoaded
    /\ data.kind # "malformed"
    /\ pc' = "validate"
    /\ UNCHANGED <<disk, phase, model, preprocessor, features_list, food_df,
                   data, ret, user_cluster, result, response, calls>>

\* validate_request raising (data.keys() of a list), caught at app.py:480-483
RecommendValidateRaised ==
    /\ pc = "validated"
    /\ ret[1].raised # ""
    /\ response' = ErrorResponse(500, <<"An error occurred during recommendation">>, "")
    /\ pc' = "done"
    /\ UNCHANGED <<disk, phase, model, preprocessor, features_list, food_df,
                   data, ret, user_cluster, result, calls>>

\* The error payload returned without its status code: Flask answers 200.
RejectedResponseNoStatus(r) ==
    ErrorResponse(200,
                  << r.error_response[1].error >> \o r.error_response[1].args,
                  r.error_response[1].allowed)

\* app.py:433-435
RejectedResponse(r) ==
    ErrorResponse(r.status_code,
                  << r.error_response[1].error >> \o r.error_response[1].args,
                  r.error_response[1].allowed)

RecommendRejected ==
    /\ pc = "validated"
    /\ ret[1].raised = ""
    /\ ~ret[1].is_valid
    /\ response' = RejectedResponse(ret[1])
    /\ pc' = "done"
    /\ UNCHANGED <<disk, phase, model, preprocessor, features_list, food_df,
                   data, ret, user_cluster, result, calls>>

\* The cluster ids the loaded K-Means model predicts.
MaxPredicted == 6

\* Whether user_df[features_list] finds every feature (app.py:441-448).
HasFeatures == Range(features_list[1]) \subseteq DOMAIN data.fields

\* app.py:438-454: the preprocessor and the model, external to app.py,
\* give a cluster id
RecommendPredict ==
    /\ pc = "validated"
    /\ ret[1].raised = ""
    /\ ret[1].is_valid
    /\ HasFeatures
    /\ \E c \in 0..MaxPredicted : user_cluster' = c
    /\ calls' = [calls EXCEPT !.predict = 1]
    /\ pc' = "rank"
    /\ UNCHANGED <<disk, phase, model, preprocessor, features_list, food_df,
                   data, ret, result, response>>

\* app.py:451-454 raising (the pipeline refusing the record), caught at
\* app.py:480-483
RecommendPredictRaises ==
    /\ pc = "validated"
    /\ ret[1].raised = ""
    /\ ret[1].is_valid
    /\ HasFeatures
    /\ calls' = [calls EXCEPT !.predict = 1]
    /\ response' = ErrorResponse(500, <<"An error occurred during recommendation">>, "")
    /\ pc' = "done"
    /\ UNCHANGED <<disk, phase, model, preprocessor, features_list, food_df,
                   data, ret, user_cluster, result>>

\* app.py:463-478: the records of the frame, without its index
RecommendRespond ==
    /\ pc = "ranked"
    /\ response' = Response(200, <<>>, "", result[1].profile_name,
                            result[1].recommendation_type,
                            [i \in DOMAIN result[1].recommended_foods.rows |->
                                result[1].recommended_foods.rows[i].cells])
    /\ pc' = "done"
    /\ UNCHANGED <<disk, phase, model, preprocessor, features_list, food_df,
                   data, ret, user_cluster, result, calls>>

\* The module imported by a WSGI server (flask run, gunicorn): the block of
\* app.py:485-491 does not run, and the app serves with nothing loaded.
ServeImported ==
    /\ phase = "boot"
    /\ phase' = "serving"
    /\ UNCHANGED <<disk, model, preprocessor, features_list, food_df, pc, data,
                   ret, user_cluster, result, response, calls>>

(***************************************************************************)
(* The service: the process starts, then handles requests                  *)
(***************************************************************************)
MaxServedRows == 2

ServedFiles == { f \in RankFiles : Len(f.rows) <= MaxServedRows }

\* A nutrients file without its Fiber column.
NoFiberFile ==
    SliceFile(SelectSeq(CsvColumns, LAMBDA c : c # "Fiber"), 1, 2)

Disks ==
    { AllFiles(f) : f \in ServedFiles }
        \cup { AllFiles(NoFiberFile),
               [AllFiles(NoFiberFile) EXCEPT !.nutrients_csvfile = None],
               [AllFiles(NoFiberFile) EXCEPT !.kmeans_model = FALSE],
               [AllFiles(NoFiberFile) EXCEPT !.preprocessor_and_features = FALSE,
                                             !.preprocessor = FALSE] }

JsonMalformed == [kind |-> "malformed", fields |-> <<>>, size |-> 0]

ServedKeySets ==
    { Range(REQUIRED_KEYS), Range(REQUIRED_KEYS) \ {"Age"},
      Range(REQUIRED_KEYS) \cup {"Gender"},
      (Range(REQUIRED_KEYS) \ {"Age"}) \cup {"Gender"}, {} }

ServedBodies ==
    {JsonMalformed, JsonNull, JsonArray(1)}
        \cup { JsonObject(FieldsOf(K, age, chronic, JStr(S_Yes), JNum(<<"6","0","0","0">>))) :
                 K \in ServedKeySets,
                 age \in {JNum(<<"4","5">>), JStr(<<"5">>), JStr(<<"a">>)},
                 chronic \in {JStr(S_Diabetes), JStr(<<"n","o","n","e">>)} }

Init ==
    /\ disk \in Disks
    /\ phase = "boot"
    /\ Unloaded
    /\ pc = "idle"
    /\ data = JsonNull
    /\ ret = None
    /\ user_cluster = 0
    /\ result = None
    /\ response = None
    /\ calls = NoCalls

Next ==
    \/ RunMain
    \/ ServeImported
    \/ \E body \in ServedBodies : Request(body)
    \/ RecommendNotLoaded
    \/ RecommendGetJsonRaises
    \/ RecommendGetJson
    \/ ValidateRequest
    \/ RecommendValidateRaised
    \/ RecommendRejected
    \/ RecommendPredict
    \/ RecommendPredictRaises
    \/ GetClusterRecommendations
    \/ RecommendRespond

Spec == Init /\ [][Next]_vars

(***************************************************************************)
(* Properties of validate_request, under SpecValidate                      *)
(***************************************************************************)
RequiredSet == Range(REQUIRED_KEYS)

\* The place of a key in the code point order.
KeyRank(k) == CHOOSE i \in DOMAIN KeyOrder : KeyOrder[i] = k

\* Whether keys lists exactly the set S in sorted order.
ListsSorted(keys, S) ==
    /\ Range(keys) = S
    /\ \A i, j \in DOMAIN keys : i < j => KeyRank(keys[i]) < KeyRank(keys[j])

RejectedWith(message) ==
    /\ ret[1].raised = ""
    /\ ~ret[1].is_valid
    /\ ret[1].status_code = 400
    /\ ret[1].error_response # None
    /\ ret[1].error_response[1].error = message

NonEmptyRecord == data.kind = "object" /\ DOMAIN data.fields # {}

\* The values float() converts: numbers, booleans and the str that are
\* float literals.
ConvertibleToFloat(value) ==
    \/ value.t \in {"number", "bool"}
    \/ value.t = "string" /\ IsFloatLiteral(value.v)

\* C1: a record with exactly the 10 required keys, every categorical field
\* holding a member of its allowed list and every numeric field
\* convertible by float(), is accepted: validate_request returns
\* (True, None, 200).
C1_ValidRecordAccepted ==
    ( /\ ret # None
      /\ data.kind = "object"
      /\ DOMAIN data.fields = RequiredSet
      /\ \A k \in {"Chronic_Disease", "Alcohol_Consumption", "Smoking_Habit",
                   "Dietary_Habits"} :
            /\ data.fields[k].t = "string"
            /\ data.fields[k].v \in Range(ALLOWED_VALUES[k])
      /\ \A k \in {"Age", "BMI", "Blood_Pressure_Systolic", "Blood_Sugar_Level",
                   "Daily_Steps", "Exercise_Frequency"} :
            ConvertibleToFloat(data.fields[k]) )
    => /\ ret[1].raised = ""
       /\ ret[1].is_valid
       /\ ret[1].error_response = None
       /\ ret[1].status_code = 200

\* A record whose Age is a str float() converts was accepted.
C1_Witness ==
    /\ ret # None
    /\ ret[1].is_valid
    /\ data.fields["Age"] = JStr(<<"-", ".", "5">>)
    /\ data.fields["Chronic_Disease"] = JStr(S_HeartDisease)

\* C2 as stated: every non-empty record with a key outside the required
\* ones is rejected with the unexpected-keys reason, also when it misses
\* required keys.
C2_ExtraKeysAlwaysUnexpected ==
    ( /\ ret # None
      /\ NonEmptyRecord
      /\ DOMAIN data.fields \ RequiredSet # {} )
    => /\ RejectedWith("Unexpected keys found")
       /\ Range(ret[1].error_response[1].args) = DOMAIN data.fields \ RequiredSet

\* C2, amended: a record that has every required key and a key outside
\* them is rejected with the unexpected-keys reason, listing the extra
\* keys; a record that also misses a required key gets the missing-keys
\* reason instead.
C2_ExtraKeysUnexpected ==
    ( /\ ret # None
      /\ NonEmptyRecord
      /\ DOMAIN data.fields \ RequiredSet # {} )
    => IF RequiredSet \subseteq DOMAIN data.fields
       THEN /\ RejectedWith("Unexpected keys found")
            /\ ListsSorted(ret[1].error_response[1].args,
                           DOMAIN data.fields \ RequiredSet)
       ELSE RejectedWith("Missing required keys")

\* A record with the 10 required keys and two more was rejected for them.
C2_Witness ==
    /\ ret # None
    /\ DOMAIN data.fields = RequiredSet \cup {"Gender", "age"}
    /\ RejectedWith("Unexpected keys found")
    /\ ret[1].error_response[1].args = <<"Gender", "age">>

\* C3: every non-empty record that lacks a required key is rejected with
\* the missing-keys reason, and the keys listed are exactly the required
\* names absent from the record, in sorted order.
C3_MissingKeysListed ==
    ( /\ ret # None
      /\ NonEmptyRecord
      /\ RequiredSet \ DOMAIN data.fields # {} )
    => /\ RejectedWith("Missing required keys")
       /\ ListsSorted(ret[1].error_response[1].args,
                      RequiredSet \ DOMAIN data.fields)

\* A record of unknown keys alone was rejected, the ten missing keys
\* listed from "Age" to "Smoking_Habit".
C3_Witness ==
    /\ ret # None
    /\ DOMAIN data.fields = {"Gender"}
    /\ RejectedWith("Missing required keys")
    /\ Len(ret[1].error_response[1].args) = 10
    /\ ret[1].error_response[1].args[2] = "Alcohol_Consumption"
    /\ ret[1].error_response[1].args[10] = "Smoking_Habit"

(***************************************************************************)
(* Properties of get_cluster_recommendations, under SpecRecommend          *)
(***************************************************************************)
Catalog == food_df[1]

Returned_rows == result[1].recommended_foods.rows

HasClusterColumn == "Cluster" \in Range(Catalog.columns)

\* The positions of the catalog rows whose label equals the cluster id.
Labelled ==
    IF HasClusterColumn
    THEN { i \in DOMAIN Catalog.rows :
             to_numeric(Catalog.rows[i].cells["Cluster"]) = Num(user_cluster) }
    ELSE {}

\* The positions of the candidate rows.
Candidates == IF Labelled # {} THEN Labelled ELSE DOMAIN Catalog.rows

\* 100 * (Protein*2 - Fat*1.5 - Calories/50) of the catalog row at
\* position i.
RowScore(i) ==
    200 * Catalog.rows[i].cells["Protein"].n
        - 150 * Catalog.rows[i].cells["Fat"].n
        - 2 * Catalog.rows[i].cells["Calories"].n

\* The catalog position of a returned row: its index label plus one.
Position(row) == row.index + 1

\* C4: the policy resolution is total.  For every cluster id the call
\* returns a profile name and a recommendation type: ids 0..5 get their
\* table entries (5: "High BMI (Obese) with Diabetes", "Balanced
\* (Low-Calorie) Foods"), every other id gets "Cluster {id}" and "Balanced
\* (Low-Calorie) Foods".
C4_PolicyTotal ==
    /\ profile_name_of(user_cluster) # ""
    /\ recommendation_type_of(user_cluster) # ""
    /\ result # None =>
         /\ user_cluster \in 0..5 =>
               /\ result[1].profile_name = CLUSTER_PROFILE[user_cluster]
               /\ result[1].recommendation_type = CLUSTER_RECOMMENDATION_TYPE[user_cluster]
         /\ user_cluster = 5 =>
               /\ result[1].profile_name = "High BMI (Obese) with Diabetes"
               /\ result[1].recommendation_type = "Balanced (Low-Calorie) Foods"
         /\ user_cluster \notin 0..5 =>
               /\ result[1].profile_name = "Cluster " \o ToString(user_cluster)
               /\ result[1].recommendation_type = "Balanced (Low-Calorie) Foods"

\* A negative id was resolved.
C4_Witness ==
    /\ result # None
    /\ user_cluster = -1
    /\ result[1].profile_name = "Cluster -1"

\* C5: the call returns min(10, number of candidates) items, the
\* candidates being the rows labelled with the cluster id when the catalog
\* has a Cluster column and some row is so labelled, and the whole catalog
\* otherwise; and it returns for every catalog.
C5_TopTenLength ==
    /\ pc = "rank" => get_cluster_recommendations(Catalog, user_cluster) # {}
    /\ result # None => Len(Returned_rows) = Min(10, Cardinality(Candidates))

\* Eleven rows carry the label, ten were returned.
C5_Witness ==
    /\ result # None
    /\ Cardinality(Labelled) = 11
    /\ Len(Catalog.rows) > 11
    /\ Len(Returned_rows) = 10

\* C6: with a Cluster column, when some row is labelled with the cluster
\* id every returned item is such a row; when none is, the whole catalog
\* is ranked: the call returns min(10, size of the catalog) of its rows,
\* none scoring below a row left out, and nothing only for an empty
\* catalog.
C6_FilterOrFallback ==
    (result # None /\ HasClusterColumn) =>
        IF Labelled # {}
        THEN \A i \in DOMAIN Returned_rows : Position(Returned_rows[i]) \in Labelled
        ELSE /\ Len(Returned_rows) = Min(10, Len(Catalog.rows))
             /\ Len(Returned_rows) = 0 => Catalog.rows = <<>>
             /\ LET kept == { Position(Returned_rows[i]) : i \in DOMAIN Returned_rows }
                IN  /\ kept \subseteq DOMAIN Catalog.rows
                    /\ Cardinality(kept) = Len(Returned_rows)
                    /\ \A i \in kept : \A j \in DOMAIN Catalog.rows \ kept :
                          RowScore(j) <= RowScore(i)

\* No row carries the label 9, and the rows of the catalog were returned.
C6_Witness ==
    /\ result # None
    /\ HasClusterColumn
    /\ user_cluster = 9
    /\ Labelled = {}
    /\ Len(Catalog.rows) = 12
    /\ Len(Returned_rows) = 10

\* C7 as stated: the returned items are the candidates in descending
\* score, two candidates of equal score in their catalog order, so that the
\* catalog and the cluster id determine the returned list.
C7_StableDescending ==
    result # None =>
        /\ \A i, j \in DOMAIN Returned_rows :
              i < j =>
                 \/ RowScore(Position(Returned_rows[i])) > RowScore(Position(Returned_rows[j]))
                 \/ /\ RowScore(Position(Returned_rows[i])) = RowScore(Position(Returned_rows[j]))
                    /\ Position(Returned_rows[i]) < Position(Returned_rows[j])
        /\ \A i \in DOMAIN Returned_rows :
              \A k \in Candidates \ { Position(Returned_rows[j]) : j \in DOMAIN Returned_rows } :
                 \/ RowScore(k) < RowScore(Position(Returned_rows[i]))
                 \/ /\ RowScore(k) = RowScore(Position(Returned_rows[i]))
                    /\ Position(Returned_rows[i]) < k

(***************************************************************************)
(* Properties of load_models_and_data, under SpecNormalize                 *)
(***************************************************************************)
RawFile == disk.nutrients_csvfile[1]

NumericCells ==
    { <<i, c>> : i \in DOMAIN food_df[1].rows, c \in Range(load_numeric_cols) }

\* C8 as stated: after the load every cell of the numeric columns is a
\* finite non-negative number, whatever the cell held in the file.
C8_NonNegativeNumbers ==
    phase = "serving" =>
        \A ic \in NumericCells :
            /\ food_df[1].rows[ic[1]].cells[ic[2]].t = "num"
            /\ food_df[1].rows[ic[1]].cells[ic[2]].n >= 0

\* C8, amended: after the load every cell of the numeric columns is a
\* number, never NaN or text: the trace marker "t" becomes 0, commas are
\* stripped before parsing and a cell that still fails to parse becomes 0;
\* but a cell that parses to a negative number keeps it, so the cells are
\* known to be non-negative only where the text of the file has no "-".
C8_Numbers ==
    phase = "serving" =>
        \A ic \in NumericCells :
            LET cell == food_df[1].rows[ic[1]].cells[ic[2]]
                raw == RawFile.rows[ic[1]][ic[2]]
            IN  /\ cell.t = "num"
                /\ raw = <<"t">> => cell.n = 0
                /\ raw = <<"1", ",", "0">> => cell.n = 10
                /\ raw = <<"1", ",", "t">> => cell.n = 10
                /\ raw \in {<<"x">>, <<"1", "x">>, <<"-">>, <<",">>, <<>>} => cell.n = 0
                /\ raw = <<"-", "1", "0">> => cell.n = -10
                /\ "-" \notin Range(raw) => cell.n >= 0

\* A cell with a thousands separator and a trace marker was loaded as 10.
C8_Witness ==
    /\ phase = "serving"
    /\ RawFile.rows[1]["Fat"] = <<"1", ",", "t">>
    /\ food_df[1].rows[1].cells["Fat"] = Num(10)

C10_ErrorClasses ==
    /\ (NotLoaded /\ pc \notin {"idle", "entry"}) =>
          /\ pc = "done"
          /\ response # None
          /\ response[1].status = 500
          /\ ret = None
          /\ calls = NoCalls
    /\ (pc = "done" /\ ret # None /\ ret[1].raised = "" /\ ~ret[1].is_valid) =>
          /\ response # None
          /\ response[1].status = 400
          /\ calls = NoCalls
    /\ (ret # None /\ ret[1].raised = "" /\ ~ret[1].is_valid) => pc \in {"validated", "done"}

\* A record every check accepts was answered 500 by an app that loaded
\* nothing.
C10_Witness ==
    /\ pc = "done"
    /\ NotLoaded
    /\ validate_request(data).is_valid
    /\ response[1].status = 500

====
